---- MODULE Spec2Model ----
(***************************************************************************)
(* A model of zim_to_corpus:                                               *)
(*   - scripts/extract_zim_htmls.py: convert_to_json (the conversion       *)
(*     worker) and main (the batch driver over a multiprocessing Pool);    *)
(*   - zim_to_corpus/html.py: get_title and sections_backwards.            *)
(* Three specifications share the variables:                               *)
(*   Spec       one convert_to_json invocation on one dump file;           *)
(*   BatchSpec  main: Pool(P).starmap(convert_to_json, files);             *)
(*   HtmlSpec   sections_backwards / get_title on a parsed tree.           *)
(***************************************************************************)
EXTENDS Integers, Sequences, FiniteSets, TLC

\* ---------------------------------------------------------------- bounds
\* Records one dump file may deliver in Spec.
MaxRecs == 4
\* Records one dump file may deliver in BatchSpec when there are at most
\* MaxParFiles files (one record each when there are more).
MaxBatchRecs == 2
\* Discovered files when the pool has one process (past 4 files starmap
\* packs several files into one task).
MaxFiles == 5
\* Discovered files when the pool has several processes.
MaxParFiles == 3
\* Pool size.
MaxProcs == 2
\* Nodes of a parsed document below its body.
MaxNodes == 4

VARIABLES
    nfiles,     \* len(in_out_files)
    procs,      \* args.processes
    pc,         \* per file: where its convert_to_json invocation stands
    doc_no,     \* per file: the loop variable doc_no (Unbound before the first record)
    out,        \* per file: the output file, [exists, lines]
    result,     \* per file: what the invocation returned or raised
    errlog,     \* per file: what the invocation logged at error level
    consumed,   \* per file: the records the dump reader has delivered so far
    tail,       \* per file: how the dump reader's sequence ended
    calls,      \* per file: number of convert_to_json invocations so far
    chunk_st,   \* per starmap task (chunk of files): queued, running, ok, failed
    cur,        \* per starmap task: the file it is converting
    main_pc,    \* main: off (not running), pool, done, raised
    total,      \* total_docs, once computed
    reports,    \* how many times the 'Done. Converted a total of' line was logged
    first_exc,  \* the exception starmap re-raises (the first one stored)
    has_body,   \* the parsed document: whether tree.body is a Tag (else None)
    kind,       \* the parsed document: per node, in document order, its name
    parent,     \* the parsed document: per node, its parent (0: the body, or
                \* the BeautifulSoup object itself when there is no body)
    hpc,        \* html.py: parsing, extracted (sections_backwards ran) or
                \* titled (get_title ran)
    yielded,    \* what list(sections_backwards(tree)) collected
    herr,       \* the exception sections_backwards raised, or "none"
    tnode,      \* the section get_title was called on
    tres        \* what get_title returned or raised

wvars == <<pc, doc_no, out, result, errlog, consumed, tail, calls>>
dvars == <<nfiles, procs, chunk_st, cur, main_pc, total, reports, first_exc>>
hvars == <<has_body, kind, parent, hpc, yielded, herr, tnode, tres>>
vars == <<wvars, dvars, hvars>>

\* ------------------------------------------------------- the dump reader
\* doc_no before `for doc_no, html in enumerate(..., 1)` has bound it.
Unbound == 0

\* A raw document: an opaque HTML string (id) and what converting it does:
\* "none" (ZimHtmlParser.parse, prettify, json.dumps and print all succeed)
\* or the exception one of them raises.
Doc(i, fault) == [id |-> i, fault |-> fault]

\* The documents a dump file in Spec may hold.
Docs == {Doc(1, "none"), Doc(2, "none"), Doc(1, "ValueError"), Doc(1, "EOFError")}
\* How enumerate_static_dump may end in Spec: exhausted, truncated
\* (EOFError), or another error while reading (OSError).
Tails == {"end", "eof", "err"}

\* The same for the files of BatchSpec.
BatchDocs == {Doc(1, "none"), Doc(1, "ValueError")}
BatchTails == {"end", "eof"}

\* json.dumps(wp.prettify()) of a document that converts: one output line.
Convert(html) == [json |-> html.id]

\* ------------------------------------------------------- convert_to_json
Files == 1..nfiles

NoResult == [kind |-> "none", value |-> 0, exc |-> "none"]
Return(n) == [kind |-> "return", value |-> n, exc |-> "none"]
Raise(e) == [kind |-> "raise", value |-> 0, exc |-> e]

\* A variant of ExceptEOF that counts records from zero.
ExceptEOFZeroBased(dn) ==
    IF dn = Unbound
    THEN [res |-> Raise("UnboundLocalError"), log |-> <<[level |-> "error", doc |-> Unbound]>>]
    ELSE [res |-> Return(dn - 1), log |-> <<[level |-> "error", doc |-> Unbound]>>]

\* Reading doc_no: an UnboundLocalError when no record was ever delivered.
\* `except EOFError as ee: logging.error(ee); return doc_no`
ExceptEOF(dn) ==
    IF dn = Unbound
    THEN [res |-> Raise("UnboundLocalError"), log |-> <<[level |-> "error", doc |-> Unbound]>>]
    ELSE [res |-> Return(dn), log |-> <<[level |-> "error", doc |-> Unbound]>>]

\* A variant of ExceptOther without the `raise`: it falls through to the
\* final `return doc_no`.
ExceptOtherSwallowed(dn, e) ==
    IF dn = Unbound
    THEN [res |-> Raise("UnboundLocalError"), log |-> <<>>]
    ELSE [res |-> Return(dn), log |-> <<[level |-> "exception", doc |-> dn]>>]

\* `except: logging.exception(f'Error in {input_file}, document {doc_no}.'); raise`
\* The f-string is evaluated first: with doc_no unbound nothing is logged
\* and the UnboundLocalError replaces the error.
ExceptOther(dn, e) ==
    IF dn = Unbound
    THEN [res |-> Raise("UnboundLocalError"), log |-> <<>>]
    ELSE [res |-> Raise(e), log |-> <<[level |-> "exception", doc |-> dn]>>]

\* The loop is exhausted: `logging.debug(f'Converted {doc_no} ...'); return doc_no`
ReturnNormal(dn) ==
    IF dn = Unbound
    THEN [res |-> Raise("UnboundLocalError"), log |-> <<>>]
    ELSE [res |-> Return(dn), log |-> <<>>]

\* How an except clause or the final return ends the invocation of file f.
Terminate(f, how) ==
    /\ result' = [result EXCEPT ![f] = how.res]
    /\ errlog' = [errlog EXCEPT ![f] = @ \o how.log]
    /\ pc' = [pc EXCEPT ![f] = IF how.res.kind = "return" THEN "returned" ELSE "raised"]

\* The call itself: a fresh frame, doc_no unbound.
Invoke(f) ==
    /\ pc' = [pc EXCEPT ![f] = "open"]
    /\ calls' = [calls EXCEPT ![f] = @ + 1]
    /\ doc_no' = [doc_no EXCEPT ![f] = Unbound]

\* A variant of Open that leaves the creation of the file to the first
\* write.
OpenLazy(f) ==
    /\ pc[f] = "open"
    /\ pc' = [pc EXCEPT ![f] = "read"]
    /\ UNCHANGED <<out, doc_no, result, errlog, consumed, tail, calls>>
    /\ UNCHANGED <<dvars, hvars>>

\* A variant of Open in append mode ('at'): a stale file keeps its lines.
OpenAppend(f) ==
    /\ pc[f] = "open"
    /\ out' = [out EXCEPT ![f] = [exists |-> TRUE, lines |-> @.lines]]
    /\ pc' = [pc EXCEPT ![f] = "read"]
    /\ UNCHANGED <<doc_no, result, errlog, consumed, tail, calls>>
    /\ UNCHANGED <<dvars, hvars>>

\* `with gzip.open(output_file, 'wt') as outf:` creates or truncates the file.
Open(f) ==
    /\ pc[f] = "open"
    /\ out' = [out EXCEPT ![f] = [exists |-> TRUE, lines |-> <<>>]]
    /\ pc' = [pc EXCEPT ![f] = "read"]
    /\ UNCHANGED <<doc_no, result, errlog, consumed, tail, calls>>
    /\ UNCHANGED <<dvars, hvars>>

\* The `for` statement asks enumerate(enumerate_static_dump(input_file), 1)
\* for the next item: a record (doc_no and html are bound), exhaustion,
\* EOFError or another error.  D, T, maxr: what the dump file may hold.
ReadRecord(f, D, T, maxr) ==
    /\ pc[f] = "read"
    /\ \/ \E d \in D :
            /\ Len(consumed[f]) < maxr
            /\ consumed' = [consumed EXCEPT ![f] = Append(@, d)]
            /\ doc_no' = [doc_no EXCEPT ![f] = Len(consumed[f]) + 1]
            /\ pc' = [pc EXCEPT ![f] = "convert"]
            /\ UNCHANGED <<result, errlog, tail>>
       \/ \E t \in T :
            /\ tail' = [tail EXCEPT ![f] = t]
            /\ Terminate(f, CASE t = "end" -> ReturnNormal(doc_no[f])
                              [] t = "eof" -> ExceptEOF(doc_no[f])
                              [] OTHER -> ExceptOther(doc_no[f], "OSError"))
            /\ UNCHANGED <<doc_no, consumed>>
    /\ UNCHANGED <<out, calls>>
    /\ UNCHANGED <<dvars, hvars>>

\* A variant of ConvertRecord that puts the new line first in the file.
ConvertRecordPrepend(f) ==
    /\ pc[f] = "convert"
    /\ LET html == consumed[f][Len(consumed[f])] IN
        CASE html.fault = "none" ->
                /\ out' = [out EXCEPT ![f].lines = <<Convert(html)>> \o @]
                /\ pc' = [pc EXCEPT ![f] = "read"]
                /\ UNCHANGED <<result, errlog>>
          [] html.fault = "EOFError" ->
                /\ Terminate(f, ExceptEOF(doc_no[f]))
                /\ UNCHANGED out
          [] OTHER ->
                /\ Terminate(f, ExceptOther(doc_no[f], html.fault))
                /\ UNCHANGED out
    /\ UNCHANGED <<doc_no, consumed, tail, calls>>
    /\ UNCHANGED <<dvars, hvars>>

\* A variant of ConvertRecord that prints to one shared output (file 1).
ConvertRecordShared(f) ==
    /\ pc[f] = "convert"
    /\ LET html == consumed[f][Len(consumed[f])] IN
        CASE html.fault = "none" ->
                /\ out' = [out EXCEPT ![1].lines = Append(@, Convert(html))]
                /\ pc' = [pc EXCEPT ![f] = "read"]
                /\ UNCHANGED <<result, errlog>>
          [] html.fault = "EOFError" ->
                /\ Terminate(f, ExceptEOF(doc_no[f]))
                /\ UNCHANGED out
          [] OTHER ->
                /\ Terminate(f, ExceptOther(doc_no[f], html.fault))
                /\ UNCHANGED out
    /\ UNCHANGED <<doc_no, consumed, tail, calls>>
    /\ UNCHANGED <<dvars, hvars>>

\* The loop body: wp = ZimHtmlParser.parse(html);
\* print(json.dumps(wp.prettify()), file=outf)
ConvertRecord(f) ==
    /\ pc[f] = "convert"
    /\ LET html == consumed[f][Len(consumed[f])] IN
        CASE html.fault = "none" ->
                /\ out' = [out EXCEPT ![f].lines = Append(@, Convert(html))]
                /\ pc' = [pc EXCEPT ![f] = "read"]
                /\ UNCHANGED <<result, errlog>>
          [] html.fault = "EOFError" ->
                /\ Terminate(f, ExceptEOF(doc_no[f]))
                /\ UNCHANGED out
          [] OTHER ->
                /\ Terminate(f, ExceptOther(doc_no[f], html.fault))
                /\ UNCHANGED out
    /\ UNCHANGED <<doc_no, consumed, tail, calls>>
    /\ UNCHANGED <<dvars, hvars>>

\* ------------------------------------------------------------ Spec
NoFile == [exists |-> FALSE, lines |-> <<>>]
\* An output file left by an earlier run.
StaleFile == [exists |-> TRUE, lines |-> <<[json |-> 0]>>]

\* No document is being parsed (Spec, BatchSpec).
NoHtml ==
    /\ has_body = TRUE
    /\ kind = <<>>
    /\ parent = <<>>
    /\ hpc = "off"
    /\ yielded = <<>>
    /\ herr = "none"
    /\ tnode = 0
    /\ tres = [kind |-> "none", text |-> <<>>, exc |-> "none"]

Init ==
    /\ nfiles = 1
    /\ procs = 1
    /\ pc = [f \in 1..1 |-> "open"]
    /\ doc_no = [f \in 1..1 |-> Unbound]
    /\ out \in [1..1 -> {NoFile, StaleFile}]
    /\ result = [f \in 1..1 |-> NoResult]
    /\ errlog = [f \in 1..1 |-> <<>>]
    /\ consumed = [f \in 1..1 |-> <<>>]
    /\ tail = [f \in 1..1 |-> "none"]
    /\ calls = [f \in 1..1 |-> 1]
    /\ chunk_st = <<>>
    /\ cur = <<>>
    /\ main_pc = "off"
    /\ total = 0
    /\ reports = 0
    /\ first_exc = "none"
    /\ NoHtml

Next ==
    \/ \E f \in Files : Open(f)
    \/ \E f \in Files : ReadRecord(f, Docs, Tails, MaxRecs)
    \/ \E f \in Files : ConvertRecord(f)

Spec == Init /\ [][Next]_vars

\* ------------------------------------------------------------ main
\* Pool.starmap(convert_to_json, in_out_files) with no chunksize: the files
\* are cut, in order, into tasks of ChunkSize files (divmod(len, 4 * P),
\* rounded up); one pool process runs one task at a time, converting its
\* files one after the other, and a task ends at the first exception.
ChunkSize(n, p) ==
    IF n = 0 THEN 0
    ELSE (n \div (4 * p)) + (IF n % (4 * p) > 0 THEN 1 ELSE 0)

NumChunks(n, p) ==
    IF n = 0 THEN 0
    ELSE (n \div ChunkSize(n, p)) + (IF n % ChunkSize(n, p) > 0 THEN 1 ELSE 0)

Chunks == 1..NumChunks(nfiles, procs)
ChunkFirst(c) == (c - 1) * ChunkSize(nfiles, procs) + 1
\* A variant of ChunkLast that stops one file short in tasks of several files.
ChunkLastShort(c) ==
    IF ChunkSize(nfiles, procs) > 1 /\ c * ChunkSize(nfiles, procs) <= nfiles
    THEN c * ChunkSize(nfiles, procs) - 1
    ELSE IF c * ChunkSize(nfiles, procs) < nfiles
    THEN c * ChunkSize(nfiles, procs) ELSE nfiles

ChunkLast(c) ==
    IF c * ChunkSize(nfiles, procs) < nfiles
    THEN c * ChunkSize(nfiles, procs) ELSE nfiles
\* The task that file f is part of.
ChunkOf(f) == ((f - 1) \div ChunkSize(nfiles, procs)) + 1

Running == {c \in Chunks : chunk_st[c] = "running"}

\* A pool process is free and takes the next task off the task queue: it
\* calls convert_to_json on the task's first file.
StartChunk(c) ==
    /\ main_pc = "pool"
    /\ chunk_st[c] = "queued"
    /\ \A b \in Chunks : b < c => chunk_st[b] # "queued"
    /\ Cardinality(Running) < procs
    /\ chunk_st' = [chunk_st EXCEPT ![c] = "running"]
    /\ cur' = [cur EXCEPT ![c] = ChunkFirst(c)]
    /\ Invoke(ChunkFirst(c))
    /\ UNCHANGED <<out, result, errlog, consumed, tail>>
    /\ UNCHANGED <<nfiles, procs, main_pc, total, reports, first_exc, hvars>>

\* The task's current invocation is over: an exception ends the task (the
\* result keeps the first exception only), a count moves it to its next
\* file, or ends it when that was its last.
AdvanceChunk(c) ==
    /\ chunk_st[c] = "running"
    /\ pc[cur[c]] \in {"returned", "raised"}
    /\ IF pc[cur[c]] = "raised"
       THEN /\ chunk_st' = [chunk_st EXCEPT ![c] = "failed"]
            /\ first_exc' = IF first_exc = "none" THEN result[cur[c]].exc ELSE first_exc
            /\ UNCHANGED <<cur, pc, calls, doc_no>>
       ELSE IF cur[c] = ChunkLast(c)
       THEN /\ chunk_st' = [chunk_st EXCEPT ![c] = "ok"]
            /\ UNCHANGED <<cur, pc, calls, doc_no, first_exc>>
       ELSE /\ cur' = [cur EXCEPT ![c] = @ + 1]
            /\ Invoke(cur[c] + 1)
            /\ UNCHANGED <<chunk_st, first_exc>>
    /\ UNCHANGED <<out, result, errlog, consumed, tail>>
    /\ UNCHANGED <<nfiles, procs, main_pc, total, reports, hvars>>

\* A variant of AllTasksDone: ready as soon as every task was handed out.
AllTasksStarted == \A c \in Chunks : chunk_st[c] # "queued"

\* The map result is ready only once all its tasks are done.
AllTasksDone == \A c \in Chunks : chunk_st[c] \in {"ok", "failed"}

RECURSIVE SumSeq(_)
SumSeq(s) == IF s = <<>> THEN 0 ELSE s[1] + SumSeq(Tail(s))

\* A variant of SumCounts that counts the files, not their records.
SumCountsFiles == SumSeq([f \in 1..nfiles |-> 1])

\* sum(...) over the list starmap returns: one count per file, in order.
SumCounts == SumSeq([f \in 1..nfiles |-> result[f].value])

\* A variant of Collect in which starmap drops the failed tasks instead of
\* re-raising.
CollectDroppingFailures ==
    /\ main_pc = "pool"
    /\ AllTasksDone
    /\ total' = SumCounts
    /\ reports' = reports + 1
    /\ main_pc' = "done"
    /\ UNCHANGED <<nfiles, procs, chunk_st, cur, first_exc>>
    /\ UNCHANGED <<wvars, hvars>>

\* starmap returns or re-raises; `total_docs = sum(...)` and the final
\* logging.info run only when it returned.
Collect ==
    /\ main_pc = "pool"
    /\ AllTasksDone
    /\ IF \E c \in Chunks : chunk_st[c] = "failed"
       THEN /\ main_pc' = "raised"
            /\ UNCHANGED <<total, reports>>
       ELSE /\ total' = SumCounts
            /\ reports' = reports + 1
            /\ main_pc' = "done"
    /\ UNCHANGED <<nfiles, procs, chunk_st, cur, first_exc>>
    /\ UNCHANGED <<wvars, hvars>>

\* The records a dump file of the batch may deliver.
BatchRecs == IF nfiles <= MaxParFiles THEN MaxBatchRecs ELSE 1

BatchInit ==
    /\ procs \in 1..MaxProcs
    /\ nfiles \in 0..(IF procs = 1 THEN MaxFiles ELSE MaxParFiles)
    /\ pc = [f \in 1..nfiles |-> "idle"]
    /\ doc_no = [f \in 1..nfiles |-> Unbound]
    /\ out = [f \in 1..nfiles |-> NoFile]
    /\ result = [f \in 1..nfiles |-> NoResult]
    /\ errlog = [f \in 1..nfiles |-> <<>>]
    /\ consumed = [f \in 1..nfiles |-> <<>>]
    /\ tail = [f \in 1..nfiles |-> "none"]
    /\ calls = [f \in 1..nfiles |-> 0]
    /\ chunk_st = [c \in 1..NumChunks(nfiles, procs) |-> "queued"]
    /\ cur = [c \in 1..NumChunks(nfiles, procs) |-> 0]
    /\ main_pc = "pool"
    /\ total = 0
    /\ reports = 0
    /\ first_exc = "none"
    /\ NoHtml

BatchNext ==
    \/ \E c \in Chunks : StartChunk(c)
    \/ \E c \in Chunks : AdvanceChunk(c)
    \/ Collect
    \/ \E f \in Files : Open(f)
    \/ \E f \in Files : ReadRecord(f, BatchDocs, BatchTails, BatchRecs)
    \/ \E f \in Files : ConvertRecord(f)

BatchSpec == BatchInit /\ [][BatchNext]_vars

\* ------------------------------------------------------------ html.py
\* A parsed document: nodes 1..Len(kind) in document order (a node's number
\* is the rank of its start tag), each with its name and its parent.  "#text"
\* is a NavigableString; the other names are Tags.
TagNames == {"section", "div", "h2", "header"}
Names == TagNames \cup {"#text"}

\* The characters of a tag name, for the regular expressions.
Chars(name) ==
    CASE name = "section" -> <<"s", "e", "c", "t", "i", "o", "n">>
      [] name = "div" -> <<"d", "i", "v">>
      [] name = "h2" -> <<"h", "2">>
      [] name = "header" -> <<"h", "e", "a", "d", "e", "r">>
      [] name = "body" -> <<"b", "o", "d", "y">>
      [] OTHER -> <<>>

Digits == {"0", "1", "2", "3", "4", "5", "6", "7", "8", "9"}

\* headerp = re.compile('[hH][0-9]+'); headerp.match(name) matches at the
\* start of the name and needs one digit at least.
HeaderMatch(name) ==
    /\ Len(Chars(name)) >= 2
    /\ Chars(name)[1] \in {"h", "H"}
    /\ Chars(name)[2] \in Digits

Nodes == 1..Len(kind)
IsTag(n) == kind[n] # "#text"
\* tree.name: of the root (the body), or of a node.
NameOf(n) == IF n = 0 THEN "body" ELSE kind[n]

\* tree.contents: the children of p, in document order.
Contents(p) == SelectSeq([i \in 1..Len(kind) |-> i], LAMBDA n : parent[n] = p)

RECURSIVE IsInside(_, _)
\* n is a descendant of a.
IsInside(n, a) ==
    IF n = 0 THEN FALSE
    ELSE parent[n] = a \/ IsInside(parent[n], a)

\* child.get_text(): the strings below the element, in document order (a
\* string is known by its node).
GetText(h) == SelectSeq([i \in 1..Len(kind) |-> i],
                        LAMBDA n : kind[n] = "#text" /\ IsInside(n, h))

TitleNone == [kind |-> "none", text |-> <<>>, exc |-> "none"]
TitleReturn(t) == [kind |-> "return", text |-> t, exc |-> "none"]
TitleRaise(e) == [kind |-> "raise", text |-> <<>>, exc |-> e]

RECURSIVE TitleFrom(_, _, _)
\* The loop of get_title from the i-th child on.  A NavigableString has no
\* tag name: headerp.match(child.name) raises on it (strerr: a TypeError for
\* name None, an AttributeError where the string has no such attribute).
TitleFrom(kids, i, strerr) ==
    IF i > Len(kids) THEN TitleRaise("ValueError")
    ELSE IF ~IsTag(kids[i]) THEN TitleRaise(strerr)
    ELSE IF HeaderMatch(kind[kids[i]]) THEN TitleReturn(GetText(kids[i]))
    ELSE TitleFrom(kids, i + 1, strerr)

\* get_title(section)
GetTitle(section, strerr) == TitleFrom(Contents(section), 1, strerr)

RECURSIVE SectionsBackwards(_), BackwardsFrom(_, _)
RECURSIVE BackwardsFromNoDescent(_, _)
\* A variant of BackwardsFrom that yields the child sections without
\* walking them.
BackwardsFromNoDescent(kids, i) ==
    IF i = 0 THEN <<>>
    ELSE (IF IsTag(kids[i]) /\ kind[kids[i]] = "section"
          THEN <<kids[i]>> ELSE <<>>)
         \o BackwardsFromNoDescent(kids, i - 1)

\* A variant of BackwardsFrom without the [::-1]: it takes the children
\* first to last.
BackwardsFromForward(kids, i) ==
    IF i = 0 THEN <<>>
    ELSE (IF IsTag(kids[Len(kids) - i + 1]) /\ kind[kids[Len(kids) - i + 1]] = "section"
          THEN SectionsBackwards(kids[Len(kids) - i + 1]) ELSE <<>>)
         \o BackwardsFrom(kids, i - 1)

\* `for child in tree.contents[::-1]`, from the i-th child down: only a
\* child that is a Tag named section is walked.
BackwardsFrom(kids, i) ==
    IF i = 0 THEN <<>>
    ELSE (IF IsTag(kids[i]) /\ kind[kids[i]] = "section"
          THEN SectionsBackwards(kids[i]) ELSE <<>>)
         \o BackwardsFrom(kids, i - 1)

\* A variant of SectionsBackwards that yields the tree before its children.
SectionsBackwardsSelfFirst(tree) ==
    (IF NameOf(tree) = "section" THEN <<tree>> ELSE <<>>)
    \o BackwardsFrom(Contents(tree), Len(Contents(tree)))

\* sections_backwards(tree) for a Tag: what the generator yields, in order.
SectionsBackwards(tree) ==
    BackwardsFrom(Contents(tree), Len(Contents(tree)))
    \o (IF NameOf(tree) = "section" THEN <<tree>> ELSE <<>>)

\* sections_backwards(tree) for the BeautifulSoup object: first
\* `yield from sections_backwards(tree.body)`, which raises when tree.body
\* is None; then its own loop, over the html element, which is no section.
SectionsOfDocument ==
    IF has_body
    THEN [yields |-> SectionsBackwards(0), exc |-> "none"]
    ELSE [yields |-> <<>>, exc |-> "AttributeError"]

\* The places where the parser may attach the next node: the body, the last
\* node if it is a Tag, or any Tag still open above the last node.
OpenTags ==
    {0} \cup {a \in Nodes : IsTag(a) /\ (a = Len(kind) \/ IsInside(Len(kind), a))}

\* BeautifulSoup builds the tree, one node after the other.
ParseNode(name, p) ==
    /\ hpc = "parsing"
    /\ Len(kind) < MaxNodes
    /\ p \in OpenTags
    /\ kind' = Append(kind, name)
    /\ parent' = Append(parent, p)
    /\ UNCHANGED <<has_body, hpc, yielded, herr, tnode, tres>>
    /\ UNCHANGED <<wvars, dvars>>

\* list(sections_backwards(tree)) on the document.
Extract ==
    /\ hpc = "parsing"
    /\ yielded' = SectionsOfDocument.yields
    /\ herr' = SectionsOfDocument.exc
    /\ hpc' = "extracted"
    /\ UNCHANGED <<has_body, kind, parent, tnode, tres>>
    /\ UNCHANGED <<wvars, dvars>>

\* get_title(section) on a section of the document.
Title(section) ==
    /\ hpc = "parsing"
    /\ kind[section] = "section"
    /\ \E strerr \in {"TypeError", "AttributeError"} :
            tres' = GetTitle(section, strerr)
    /\ tnode' = section
    /\ hpc' = "titled"
    /\ UNCHANGED <<has_body, kind, parent, yielded, herr>>
    /\ UNCHANGED <<wvars, dvars>>

HtmlInit ==
    /\ has_body \in BOOLEAN
    /\ kind = <<>>
    /\ parent = <<>>
    /\ hpc = "parsing"
    /\ yielded = <<>>
    /\ herr = "none"
    /\ tnode = 0
    /\ tres = TitleNone
    /\ nfiles = 0
    /\ procs = 1
    /\ pc = <<>>
    /\ doc_no = <<>>
    /\ out = <<>>
    /\ result = <<>>
    /\ errlog = <<>>
    /\ consumed = <<>>
    /\ tail = <<>>
    /\ calls = <<>>
    /\ chunk_st = <<>>
    /\ cur = <<>>
    /\ main_pc = "off"
    /\ total = 0
    /\ reports = 0
    /\ first_exc = "none"

HtmlNext ==
    \/ \E name \in Names, p \in 0..MaxNodes : ParseNode(name, p)
    \/ Extract
    \/ \E section \in Nodes : Title(section)

HtmlSpec == HtmlInit /\ [][HtmlNext]_vars

\* ------------------------------------------------------------ properties
\* The invocation on file f is over.
Over(f) == pc[f] \in {"returned", "raised"}

\* The conversions of the records s, in order.
Converted(s) == [i \in 1..Len(s) |-> Convert(s[i])]

AllConvert(s) == \A i \in 1..Len(s) : s[i].fault = "none"

\* C1: when the dump reader delivered K >= 1 records that all converted and
\* then signalled EOFError while the next record was being read,
\* convert_to_json returns K and the output file holds exactly the K
\* conversions, in the order of the records.
C1_TruncationReturnsCount ==
    \A f \in Files :
        (Over(f) /\ tail[f] = "eof" /\ Len(consumed[f]) >= 1 /\ AllConvert(consumed[f]))
        => /\ result[f] = Return(Len(consumed[f]))
           /\ out[f].exists
           /\ out[f].lines = Converted(consumed[f])

\* A truncation after three good records, over a stale output file.
C1_Witness ==
    \E f \in Files :
        /\ pc[f] = "returned"
        /\ tail[f] = "eof"
        /\ Len(consumed[f]) = 3
        /\ consumed[f][1] # consumed[f][2]
        /\ Len(out[f].lines) = 3

\* C2: when converting record K fails with an error that is not an EOFError,
\* convert_to_json raises that error (no count) and the output file holds
\* exactly the conversions of records 1..K-1, in order.
C2_FatalKeepsEarlierRecords ==
    \A f \in Files :
        (/\ Over(f)
         /\ tail[f] = "none"
         /\ Len(consumed[f]) >= 1
         /\ consumed[f][Len(consumed[f])].fault \notin {"none", "EOFError"})
        => /\ result[f] = Raise(consumed[f][Len(consumed[f])].fault)
           /\ out[f].exists
           /\ out[f].lines = Converted(SubSeq(consumed[f], 1, Len(consumed[f]) - 1))

\* The third record fails to convert after two that were written.
C2_Witness ==
    \E f \in Files :
        /\ pc[f] = "raised"
        /\ tail[f] = "none"
        /\ Len(consumed[f]) = 3
        /\ consumed[f][3].fault = "ValueError"
        /\ Len(out[f].lines) = 2

\* C3: for a dump file of M >= 1 records that is exhausted without
\* truncation, all records converting, convert_to_json returns M and the
\* output file holds exactly the M conversions, in the order of the records.
C3_FullFileReturnsAll ==
    \A f \in Files :
        (Over(f) /\ tail[f] = "end" /\ Len(consumed[f]) >= 1 /\ AllConvert(consumed[f]))
        => /\ result[f] = Return(Len(consumed[f]))
           /\ out[f].exists
           /\ out[f].lines = Converted(consumed[f])

\* A file of MaxRecs records converted to the end.
C3_Witness ==
    \E f \in Files :
        /\ pc[f] = "returned"
        /\ tail[f] = "end"
        /\ Len(consumed[f]) = MaxRecs
        /\ consumed[f][1] # consumed[f][2]
        /\ Len(out[f].lines) = MaxRecs

\* main is over: starmap returned and the total was logged, or it raised.
MainOver == main_pc \in {"done", "raised"}

RECURSIVE CountsUpTo(_)
\* The sum of the counts returned for files 1..n.
CountsUpTo(n) == IF n = 0 THEN 0 ELSE result[n].value + CountsUpTo(n - 1)

\* C4: when every worker invocation returned a count (full, or partial after
\* a truncation), main reports a total and it is the sum of the counts
\* returned for all discovered files.
C4_TotalIsSumOfCounts ==
    /\ (MainOver /\ \A f \in Files : result[f].kind = "return")
            => (main_pc = "done" /\ reports = 1 /\ total = CountsUpTo(nfiles))
    /\ reports >= 1 => total = CountsUpTo(nfiles)

\* Two files on a pool of two: one converted to the end (2 records), one
\* truncated after 1 record; the total is 3.
C4_Witness ==
    /\ main_pc = "done"
    /\ procs = 2
    /\ nfiles = 2
    /\ \E f, g \in Files :
        /\ tail[f] = "end" /\ result[f] = Return(2)
        /\ tail[g] = "eof" /\ result[g] = Return(1)
    /\ total = 3

\* A file that precedes f in f's starmap task raised.
SkippedBy(f) ==
    {g \in Files : g < f /\ ChunkOf(g) = ChunkOf(f) /\ pc[g] = "raised"}

\* No invocation failed on doc_no being unbound (a file without a record).
NoUnboundFailure == \A f \in Files : result[f].exc # "UnboundLocalError"

\* C5 as claimed: in every run each discovered file is converted exactly
\* once: never twice, and none is left unconverted when the run ends (here
\* for the runs in which every file delivered a record).
C5_ExactlyOncePerFile ==
    /\ \A f \in Files : calls[f] <= 1
    /\ (MainOver /\ NoUnboundFailure) => \A f \in Files : calls[f] = 1

\* C5 as amended: no file is converted twice, and when the run ends the
\* files left unconverted are exactly those that follow, in the same starmap
\* task, a file whose conversion raised.
C5_OncePerFileUnlessSkipped ==
    /\ \A f \in Files : calls[f] <= 1
    /\ MainOver => \A f \in Files : (calls[f] = 1 <=> SkippedBy(f) = {})
    /\ \A f \in Files : calls[f] = 1 => SkippedBy(f) = {}

\* One process, five files: the first file of a task of two raised and the
\* second was never converted, the other files were.
C5_Witness ==
    /\ MainOver
    /\ nfiles = 5
    /\ \E f \in Files : calls[f] = 0 /\ SkippedBy(f) # {}
    /\ \E f \in Files : pc[f] = "returned" /\ f > 2

\* What the invocation on file g has written, from g's own records alone:
\* one line per record delivered, less the one being converted or the one
\* whose conversion ended the invocation.
OwnLines(g) ==
    IF pc[g] = "convert" \/ (Over(g) /\ tail[g] = "none")
    THEN Converted(SubSeq(consumed[g], 1, Len(consumed[g]) - 1))
    ELSE Converted(consumed[g])

\* C6 as claimed: after a fatal failure of one file every other file has the
\* output of a run without that failure: its conversion ran, and wrote what
\* its own records give (here for the runs in which every file delivered a
\* record).
C6_FailureChangesNoOtherFile ==
    (MainOver /\ NoUnboundFailure /\ \E f \in Files : pc[f] = "raised")
        => \A g \in Files :
                pc[g] # "raised" => (pc[g] = "returned" /\ out[g].exists
                                     /\ out[g].lines = OwnLines(g))

\* C6 as amended: at every moment the output of a file is what its own
\* invocation made of its own records, whatever the other invocations do or
\* raise; but a file that follows a failed file in the same starmap task is
\* never converted and has no output at all.
C6_OutputIsOwnUnlessSkipped ==
    /\ \A g \in Files :
            out[g] = IF pc[g] \in {"idle", "open"} THEN NoFile
                     ELSE [exists |-> TRUE, lines |-> OwnLines(g)]
    /\ MainOver => \A g \in Files : (pc[g] = "idle" <=> SkippedBy(g) # {})
    /\ MainOver => \A g \in Files : pc[g] \in {"idle", "returned", "raised"}

\* Two processes: one file raised while another, converted at the same
\* time, kept both its lines and returned.
C6_Witness ==
    /\ MainOver
    /\ procs = 2
    /\ \E f, g \in Files :
        /\ pc[f] = "raised"
        /\ pc[g] = "returned" /\ Len(out[g].lines) = 2
        /\ g > f

\* C7: the total is reported at most once, and only when every invocation
\* is over: never while a conversion is queued or in progress.
C7_TotalOnceAfterAllWorkers ==
    /\ reports <= 1
    /\ reports >= 1 => \A f \in Files : Over(f)

\* The total is reported for three files converted on two processes.
C7_Witness ==
    /\ reports = 1
    /\ procs = 2
    /\ nfiles = 3
    /\ \A f \in Files : Over(f) /\ calls[f] = 1

\* The section elements of the document.
Sections == {n \in Nodes : kind[n] = "section"}

\* The header elements among the direct children of a node.
HeaderChildren(n) == {c \in Nodes : parent[c] = n /\ IsTag(c) /\ HeaderMatch(kind[c])}

AllSectionsHeadered == \A n \in Sections : HeaderChildren(n) # {}

\* Every section is a child of the body or of another section.
SectionsChained == \A n \in Sections : parent[n] = 0 \/ parent[n] \in Sections

YieldedSet == {yielded[i] : i \in 1..Len(yielded)}

C9_ForwardOrder ==
    (hpc = "extracted" /\ herr = "none")
        => \A i, j \in 1..Len(yielded) : i < j => yielded[i] < yielded[j]

\* C9 as amended: the sections delivered are in reverse document order: of
\* two sections the one that starts later is delivered first (a sub-section
\* before the section around it, a later sibling before an earlier one).
C9_ReverseOrder ==
    (hpc = "extracted" /\ herr = "none")
        => \A i, j \in 1..Len(yielded) : i < j => yielded[i] > yielded[j]

\* Three sections delivered: two siblings, one of them with a sub-section.
C9_Witness ==
    /\ hpc = "extracted"
    /\ Len(yielded) = 3
    /\ \E n \in Sections : parent[n] \in Sections
    /\ \E n, m \in Sections : n # m /\ parent[n] = 0 /\ parent[m] = 0

\* The first header among the direct children of n, in forward order.
FirstHeaderChild(n) == CHOOSE c \in HeaderChildren(n) : \A d \in HeaderChildren(n) : c <= d

\* C10: for a section with a header among its direct children, get_title
\* returns the text of the first such header, whatever other children
\* (strings, other elements, later headers) come before or after it.
C10_TitleIsFirstHeader ==
    (hpc = "titled" /\ HeaderChildren(tnode) # {})
        => tres = TitleReturn(GetText(FirstHeaderChild(tnode)))

\* C11: for a section without a header among its direct children (its only
\* headers, if any, nested deeper), get_title raises the ValueError
\* 'No header in section'; it returns no title.
C11_NoHeaderIsValueError ==
    (hpc = "titled" /\ HeaderChildren(tnode) = {})
        => tres = TitleRaise("ValueError")

\* C12: for a document without any section element, the empty document
\* included, sections_backwards yields nothing and raises nothing.
C12_NoSectionYieldsNothing ==
    (hpc = "extracted" /\ Sections = {})
        => (herr = "none" /\ yielded = <<>>)

\* C13: when the dump reader delivers no record at all (the file is empty,
\* or truncation is signalled before the first record), convert_to_json
\* returns 0 and leaves an output file without a line.
C13_NoRecordReturnsZero ==
    \A f \in Files :
        (Over(f) /\ consumed[f] = <<>> /\ tail[f] \in {"end", "eof"})
        => /\ result[f] = Return(0)
           /\ out[f] = [exists |-> TRUE, lines |-> <<>>]

\* C14: only a truncation signalled while the next record is read is
\* recoverable: an error raised while a record is converted or written,
\* whatever its kind, is logged and re-raised, and no count is returned.
C14_BodyErrorsAreFatal ==
    \A f \in Files :
        (/\ Over(f)
         /\ tail[f] = "none"
         /\ Len(consumed[f]) >= 1
         /\ consumed[f][Len(consumed[f])].fault # "none")
        => /\ result[f] = Raise(consumed[f][Len(consumed[f])].fault)
           /\ \E i \in 1..Len(errlog[f]) : errlog[f][i].level = "exception"

\* C15: at every moment of an invocation, however it ends, the lines in
\* the output file are the conversions of a prefix of the records consumed
\* so far, in the order consumed: none twice, none skipped, none displaced.
C15_OutputIsPrefixOfConsumed ==
    \A f \in Files :
        pc[f] \notin {"idle", "open"}
        => /\ out[f].exists
           /\ \E k \in 0..Len(consumed[f]) :
                out[f].lines = Converted(SubSeq(consumed[f], 1, k))

\* The third record is being converted, two different lines are written.
C15_Witness ==
    \E f \in Files :
        /\ pc[f] = "convert"
        /\ Len(consumed[f]) = 3
        /\ Len(out[f].lines) = 2
        /\ out[f].lines[1] # out[f].lines[2]

\* C16 as claimed: the output file does not come into existence before the
\* first record was read, and an invocation that emits no record creates
\* no output file.
C16_FileCreatedOnFirstRecord ==
    \A f \in Files :
        /\ out[f].exists => Len(consumed[f]) >= 1
        /\ (Over(f) /\ Len(out[f].lines) = 0) => ~out[f].exists

\* C16 as amended: the output file exists from the moment the invocation
\* opened it, before any record is read, and every invocation that is over
\* left one, empty when it emitted no record.
C16_FileCreatedOnOpen ==
    \A f \in Files :
        /\ out[f].exists <=> pc[f] \notin {"idle", "open"}
        /\ pc[f] = "read" /\ consumed[f] = <<>> => out[f] = [exists |-> TRUE, lines |-> <<>>]
        /\ Over(f) => out[f].exists

\* An invocation that got no record is over and left an empty file.
C16_Witness ==
    \E f \in Files :
        /\ Over(f)
        /\ consumed[f] = <<>>
        /\ out[f] = [exists |-> TRUE, lines |-> <<>>]

\* C17: sections_backwards yields in reverse document order: a section
\* after every section nested in it, and of two sibling sections the later
\* one, with everything nested in it, before the earlier one.
C17_NestedFirstLaterSiblingFirst ==
    hpc = "extracted"
        => \A i, j \in 1..Len(yielded) :
            /\ IsInside(yielded[j], yielded[i]) => j < i
            /\ (parent[yielded[i]] = parent[yielded[j]] /\ yielded[i] < yielded[j])
                => /\ j < i
                   /\ \A k \in 1..Len(yielded) :
                        IsInside(yielded[k], yielded[j]) => k < i

\* Two sibling sections, the later one with a sub-section: all three are
\* yielded.
C17_Witness ==
    /\ hpc = "extracted"
    /\ Len(yielded) = 3
    /\ \E a, b, c \in Sections :
        /\ a < b
        /\ parent[a] = parent[b]
        /\ parent[c] = b

\* The 1-based position of the record whose reading or conversion ended the
\* invocation on f with an error.
OffendingRecord(f) ==
    IF tail[f] = "none" THEN Len(consumed[f]) ELSE Len(consumed[f]) + 1

\* C18: when convert_to_json aborts on a fatal error, the record number it
\* logs is the position of the record whose reading or conversion raised,
\* also for an error of the read step and for one at the first record.
C18_LoggedRecordIsOffender ==
    \A f \in Files :
        (/\ Over(f)
         /\ \/ tail[f] = "err"
            \/ (/\ tail[f] = "none"
                /\ consumed[f] # <<>>
                /\ consumed[f][Len(consumed[f])].fault \notin {"none", "EOFError"}))
        => errlog[f] = <<[level |-> "exception", doc |-> OffendingRecord(f)]>>

\* C19: main reports a total only if every invocation returned a count; if
\* one raised, starmap re-raises, main ends with that exception and reports
\* no total, so no record of a failed file is in a reported total.
C19_NoTotalAfterFailure ==
    /\ reports >= 1 => \A f \in Files : result[f].kind = "return"
    /\ (MainOver /\ \E f \in Files : result[f].kind = "raise")
            => (main_pc = "raised" /\ reports = 0 /\ first_exc # "none")
    /\ main_pc = "raised" => \E f \in Files : result[f] = Raise(first_exc)

\* On two processes one file returned 2 and another raised: main raised
\* and reported nothing.
C19_Witness ==
    /\ main_pc = "raised"
    /\ reports = 0
    /\ procs = 2
    /\ \E f, g \in Files : result[f] = Return(2) /\ result[g].kind = "raise"

====
